---- MODULE Spec2Model ----
(***************************************************************************)
(* The tool-dispatch gateways of biotech-agent-ai.                         *)
(*                                                                         *)
(* Spec      the OpenFDA MCP server: the CallTool dispatcher of FDAServer, *)
(*           the search handlers, FDAAPIClient (buildSearchParams, get,    *)
(*           handleAPIError) and the upstream API as the environment.      *)
(* FairSpec  Spec with the fairness the event loop and the axios timeout   *)
(*           give.                                                         *)
(* SqlSpec   the OpenGenes SQL tool: Safety Filter in front of the         *)
(*           database.                                                     *)
(* ClientSpec  FDAAPIClient called directly: its search* methods and get.  *)
(* SseSpec   sse.ts: sessions over SSE, one FDAServer per connection.      *)
(* ConSpec   several tool calls in flight together.                        *)
(* KeySpec   the same call in two runs of the server that differ in the    *)
(*           configured key.                                               *)
(*                                                                         *)
(* A JavaScript object is a function whose DOMAIN is the set of keys the   *)
(* object has; reading a key that is not there gives undefined.            *)
(***************************************************************************)
EXTENDS Integers, Sequences, FiniteSets, TLC

VARIABLES
    envKey,     \* process.env.FDA_API_KEY ("" when unset), read once at start-up
    phase,      \* where the one call in flight is: Idle, Received, Sending, Formatting, Done
    name,       \* request.params.name
    args,       \* request.params.arguments
    fault,      \* what the handler itself throws while formatting, if anything
    request,    \* what axiosInstance.get was given: endpoint and params
    sent,       \* number of upstream requests issued for this call
    response,   \* how the upstream request ended
    thrown,     \* the value thrown inside the dispatcher's try block, if any
    outcome,    \* what leaves the dispatcher: a tool result or a thrown error
    trace,      \* the phases this call went through, in order
    sqlPhase,   \* SQL tool: Idle, Received, SafetyChecking, Sending, Done
    sqlText,    \* SQL tool: the statement the caller supplied, as tokens
    sqlSent,    \* SQL tool: the statements handed to the database for this call
    sqlOutcome, \* SQL tool: what the call returned
    cliMethod,  \* client called directly: none, search (a search* method) or get
    cliEndpoint, \* client called directly: the endpoint
    cliInput,   \* client called directly: the searchParams or params passed in
    cliRequest, \* client called directly: what axiosInstance.get was given
    cliUndefined, \* client called directly: the keys passed in with the value undefined or null
    cliRequestUndefined, \* client called directly: the keys given to axios with such a value
    transports, \* SSE server: each transport's life: unused, connecting, open, closed
    onclose,    \* SSE server: the transports whose onclose handler sse.ts has set
    sessions,   \* SSE server: the sessions Map, sessionId to transport
    posted,     \* SSE server: the last POST /messages and how it was answered
    listed,     \* SSE server: the tools of the last ListTools response
    sigintListeners, \* SSE server: the listeners process.on('SIGINT', ...) has added
    calls,      \* concurrent calls: each call's phase, inputs, request and outcome
    firstRun    \* two runs compared: the call as it ended in the run with the other key

fdaVars == <<envKey, phase, name, args, fault, request, sent, response, thrown, outcome, trace>>
sqlVars == <<sqlPhase, sqlText, sqlSent, sqlOutcome>>
cliVars == <<cliMethod, cliEndpoint, cliInput, cliRequest, cliUndefined, cliRequestUndefined>>
sseVars == <<transports, onclose, sessions, posted, listed, sigintListeners>>
conVars == <<calls>>
keyVars == <<firstRun>>
vars == <<envKey, phase, name, args, fault, request, sent, response, thrown, outcome, trace,
          sqlPhase, sqlText, sqlSent, sqlOutcome,
          cliMethod, cliEndpoint, cliInput, cliRequest, cliUndefined, cliRequestUndefined,
          transports, onclose, sessions, posted, listed, sigintListeners, calls, firstRun>>

\* what the actions of one part leave alone
notFda == <<sqlVars, cliVars, sseVars, conVars, keyVars>>
notSql == <<fdaVars, cliVars, sseVars, conVars, keyVars>>
notCli == <<fdaVars, sqlVars, sseVars, conVars, keyVars>>
notSse == <<fdaVars, sqlVars, cliVars, conVars, keyVars>>
notCon == <<fdaVars, sqlVars, cliVars, sseVars, keyVars>>
notKey == <<sqlVars, cliVars, sseVars, conVars>>

----------------------------------------------------------------------------
(* Bounds of the model *)

\* limits are tried this far below 1, around 0 and this far above MAX_LIMIT
LimitSpan == 1
\* an HTTP 200 answer carries 0..MaxRecords records
MaxRecords == 3
\* longest SQL statement tried, in tokens
MaxSqlLen == 4
\* SSE connections opened in one run of the server
MaxSessions == 2
\* tool calls in flight at the same time
MaxCalls == 2

----------------------------------------------------------------------------
(* api-client.js: configuration *)

DEFAULT_LIMIT == 10
MAX_LIMIT == 100
\* the declared bounds of the limit parameter in every inputSchema
LIMIT_MINIMUM == 1
LIMIT_MAXIMUM == 100

HardcodedKey == "sNQRRzbOvngzuFVbiajF6AelXY7QncaX3OKN8YQD"

\* const FDA_API_KEY = process.env.FDA_API_KEY || '<literal>'
FDA_API_KEY == IF envKey # "" THEN envKey ELSE HardcodedKey

\* this.hasAPIKey = !!FDA_API_KEY
hasAPIKey == FDA_API_KEY # ""

REQUESTS_PER_MINUTE == 240
REQUESTS_PER_HOUR == 120000
REQUESTS_PER_MINUTE_NO_KEY == 40
REQUESTS_PER_HOUR_NO_KEY == 1000

\* getUsageInfo()
getUsageInfo ==
    [ hasAPIKey |-> hasAPIKey,
      requestsPerMinute |-> IF hasAPIKey THEN REQUESTS_PER_MINUTE ELSE REQUESTS_PER_MINUTE_NO_KEY,
      requestsPerHour |-> IF hasAPIKey THEN REQUESTS_PER_HOUR ELSE REQUESTS_PER_HOUR_NO_KEY,
      recommendations |-> IF hasAPIKey
                          THEN "API key configured - higher rate limits available"
                          ELSE "Consider setting FDA_API_KEY environment variable for higher rate limits" ]

----------------------------------------------------------------------------
(* JavaScript objects *)

EmptyObject == [k \in {} |-> 0]

Has(o, k) == k \in DOMAIN o

Put(o, k, v) == [x \in (DOMAIN o) \cup {k} |-> IF x = k THEN v ELSE o[x]]

\* truthiness of a number and of a string
TruthyNum(n) == n # 0
TruthyStr(s) == s # ""

\* Math.min on integers
MathMin(a, b) == IF a < b THEN a ELSE b

----------------------------------------------------------------------------
(* fda-server.js: the catalog and the dispatcher's switch *)

ListedTools ==
    { "search_drug_adverse_events", "search_drug_labels", "search_drug_ndc",
      "search_drug_recalls", "search_drugs_fda", "search_drug_shortages",
      "search_device_510k", "search_device_classifications",
      "search_device_adverse_events", "search_device_recalls" }

\* the case labels of the switch in the CallTool handler
SwitchCases ==
    { "search_drug_adverse_events", "search_drug_labels", "search_drug_ndc",
      "search_drug_recalls", "search_drugs_fda", "search_drug_shortages",
      "search_device_510k", "search_device_classifications",
      "search_device_adverse_events", "search_device_recalls" }

\* the endpoint of the client method each handler calls
Endpoint(tool) ==
    CASE tool = "search_drug_adverse_events"    -> "/drug/event.json"
      [] tool = "search_drug_labels"            -> "/drug/label.json"
      [] tool = "search_drug_ndc"               -> "/drug/ndc.json"
      [] tool = "search_drug_recalls"           -> "/drug/enforcement.json"
      [] tool = "search_drugs_fda"              -> "/drug/drugsfda.json"
      [] tool = "search_drug_shortages"         -> "/drug/drugshortages.json"
      [] tool = "search_device_510k"            -> "/device/510k.json"
      [] tool = "search_device_classifications" -> "/device/classification.json"
      [] tool = "search_device_adverse_events"  -> "/device/event.json"
      [] tool = "search_device_recalls"         -> "/device/enforcement.json"
      [] OTHER                                  -> "none"

----------------------------------------------------------------------------
(* Messages and thrown values *)

\* a message: its fixed text, the interpolated detail and the interpolated status
Msg(text, detail, status) == [text |-> text, detail |-> detail, status |-> status]

NoMsg == Msg("", "", 0)

Thrown(cls, code, message) == [cls |-> cls, code |-> code, message |-> message]

NoThrow == Thrown("none", "", NoMsg)

\* new McpError(ErrorCode.MethodNotFound, `Unknown tool: ${name}`)
UnknownToolError(tool) == Thrown("McpError", "MethodNotFound", Msg("Unknown tool: ", tool, 0))

----------------------------------------------------------------------------
(* api-client.js: building the request *)

\* mutant: buildSearchParams hands every key of its input on
buildSearchParamsCopiesAll(searchParams) == searchParams

\* mutant: buildSearchParams without its limit branch
buildSearchParamsDropsLimit(searchParams) ==
    LET p0 == EmptyObject
        p1 == IF Has(searchParams, "search") /\ TruthyStr(searchParams["search"])
              THEN Put(p0, "search", searchParams["search"]) ELSE p0
        p2 == IF Has(searchParams, "count") /\ TruthyStr(searchParams["count"])
              THEN Put(p1, "count", searchParams["count"]) ELSE p1
        p4 == IF Has(searchParams, "skip") /\ TruthyNum(searchParams["skip"])
              THEN Put(p2, "skip", searchParams["skip"]) ELSE p2
    IN  p4

\* buildSearchParams(searchParams): a key is copied when its value is truthy
buildSearchParams(searchParams) ==
    LET p0 == EmptyObject
        p1 == IF Has(searchParams, "search") /\ TruthyStr(searchParams["search"])
              THEN Put(p0, "search", searchParams["search"]) ELSE p0
        p2 == IF Has(searchParams, "count") /\ TruthyStr(searchParams["count"])
              THEN Put(p1, "count", searchParams["count"]) ELSE p1
        p3 == IF Has(searchParams, "limit") /\ TruthyNum(searchParams["limit"])
              THEN Put(p2, "limit", MathMin(searchParams["limit"], MAX_LIMIT)) ELSE p2
        p4 == IF Has(searchParams, "skip") /\ TruthyNum(searchParams["skip"])
              THEN Put(p3, "skip", searchParams["skip"]) ELSE p3
    IN  p4

\* mutant: get leaves an api_key the caller passed in place
getRequestParamsKeepsCallerKey(params) ==
    LET r0 == params
        r1 == IF hasAPIKey /\ ~Has(r0, "api_key") THEN Put(r0, "api_key", FDA_API_KEY) ELSE r0
        r2 == IF Has(r1, "limit") /\ TruthyNum(r1["limit"])
              THEN Put(r1, "limit", MathMin(r1["limit"], MAX_LIMIT))
              ELSE Put(r1, "limit", DEFAULT_LIMIT)
    IN  r2

\* get(endpoint, params), up to the call of axiosInstance.get: the params sent,
\* for the keys of params that hold a value; a key that holds undefined or null
\* reads as an absent one here and is followed by getUndefinedBeforeSweep and getSweep
getRequestParams(params) ==
    LET r0 == params
        r1 == IF hasAPIKey THEN Put(r0, "api_key", FDA_API_KEY) ELSE r0
        r2 == IF Has(r1, "limit") /\ TruthyNum(r1["limit"])
              THEN Put(r1, "limit", MathMin(r1["limit"], MAX_LIMIT))
              ELSE Put(r1, "limit", DEFAULT_LIMIT)
    IN  r2

\* buildSearchParams, for the keys passed in with the value undefined or null:
\* such a value is falsy, so none of them is copied
buildUndefined(undef) == { k \in undef : FALSE }

\* get, before the final sweep: the keys of requestParams that still hold
\* undefined or null: api_key has been assigned, limit has been defaulted
getUndefinedBeforeSweep(undef) ==
    (undef \ {"limit"}) \ (IF hasAPIKey THEN {"api_key"} ELSE {})

\* mutant: get without the final sweep
getSweepMissing(undef) == undef

\* get, the final sweep: every key whose value is undefined or null is deleted
getSweep(undef) == { k \in undef : FALSE }

\* searchDrugRecalls(searchParams) and its eleven siblings
clientSearch(endpoint, searchParams) ==
    [endpoint |-> endpoint, params |-> getRequestParams(buildSearchParams(searchParams))]

NoRequest == [endpoint |-> "none", params |-> EmptyObject]

----------------------------------------------------------------------------
(* The upstream API: how an axios request can end *)

\* 200, the five statuses handleAPIError names or falls through on, and two more
HttpStatuses == {200, 400, 403, 404, 429, 500, 502, 503}

\* the statuses for which handleAPIError reads data?.error?.message
ReadsBody == {400, 403, 502}

\* data?.error?.message of an error body, "" when the body has none
DataMessages == {"", "upstream detail"}

Resp(kind, status, dataMsg, records) ==
    [kind |-> kind, status |-> status, dataMsg |-> dataMsg, records |-> records]

NoResponse == Resp("none", 0, "", 0)

Responses ==
    { Resp("http", 200, "", n) : n \in 0..MaxRecords }
    \cup { Resp("http", s, "", 0) : s \in HttpStatuses \ {200} }
    \cup { Resp("http", s, "upstream detail", 0) : s \in ReadsBody }
    \* the request was made and no response came: refused, DNS failure, timeout
    \cup { Resp("norequestanswer", 0, "", 0) }
    \* the request could not be set up
    \cup { Resp("setup", 0, "", 0) }

\* error.message as axios sets it
axiosMessage(resp) ==
    CASE resp.kind = "http"            -> "Request failed with status code"
      [] resp.kind = "norequestanswer" -> "timeout of 30000ms exceeded"
      [] OTHER                         -> "invalid request configuration"

\* a || b on strings
OrElse(a, b) == IF TruthyStr(a) THEN a ELSE b

PlainError(message) == Thrown("Error", "", message)

\* mutant: handleAPIError without its case 404 and case 429
handleAPIErrorFewerCases(resp) ==
    IF resp.kind = "http" THEN
        CASE resp.status = 400 ->
                PlainError(Msg("Bad Request: ", OrElse(resp.dataMsg, "Invalid search parameters"), 0))
          [] resp.status = 500 ->
                PlainError(Msg("FDA API server error. Please try again later", "", 0))
          [] resp.status = 503 ->
                PlainError(Msg("FDA API service temporarily unavailable", "", 0))
          [] OTHER ->
                PlainError(Msg("FDA API error (status): ",
                               OrElse(resp.dataMsg, axiosMessage(resp)), resp.status))
    ELSE IF resp.kind = "norequestanswer" THEN
        PlainError(Msg("Network error: Unable to connect to FDA API", "", 0))
    ELSE
        PlainError(Msg("Request error: ", axiosMessage(resp), 0))

\* mutant: the message for a request that could not be set up shows the
\* request's parameters, the key among them
handleAPIErrorShowsParams(resp) ==
    IF resp.kind = "http" THEN
        CASE resp.status = 400 ->
                PlainError(Msg("Bad Request: ", OrElse(resp.dataMsg, "Invalid search parameters"), 0))
          [] resp.status = 404 ->
                PlainError(Msg("No results found for the given search criteria", "", 0))
          [] resp.status = 429 ->
                PlainError(Msg("Rate limit exceeded. ",
                               IF hasAPIKey THEN "API key rate limits"
                               ELSE "Consider using an API key for higher limits", 0))
          [] resp.status = 500 ->
                PlainError(Msg("FDA API server error. Please try again later", "", 0))
          [] resp.status = 503 ->
                PlainError(Msg("FDA API service temporarily unavailable", "", 0))
          [] OTHER ->
                PlainError(Msg("FDA API error (status): ",
                               OrElse(resp.dataMsg, axiosMessage(resp)), resp.status))
    ELSE IF resp.kind = "norequestanswer" THEN
        PlainError(Msg("Network error: Unable to connect to FDA API", "", 0))
    ELSE
        PlainError(Msg("Request error: ", FDA_API_KEY, 0))

\* handleAPIError(error): always throws; the value thrown
handleAPIError(resp) ==
    IF resp.kind = "http" THEN
        CASE resp.status = 400 ->
                PlainError(Msg("Bad Request: ", OrElse(resp.dataMsg, "Invalid search parameters"), 0))
          [] resp.status = 404 ->
                PlainError(Msg("No results found for the given search criteria", "", 0))
          [] resp.status = 429 ->
                PlainError(Msg("Rate limit exceeded. ",
                               IF hasAPIKey THEN "API key rate limits"
                               ELSE "Consider using an API key for higher limits", 0))
          [] resp.status = 500 ->
                PlainError(Msg("FDA API server error. Please try again later", "", 0))
          [] resp.status = 503 ->
                PlainError(Msg("FDA API service temporarily unavailable", "", 0))
          [] OTHER ->
                PlainError(Msg("FDA API error (status): ",
                               OrElse(resp.dataMsg, axiosMessage(resp)), resp.status))
    ELSE IF resp.kind = "norequestanswer" THEN
        PlainError(Msg("Network error: Unable to connect to FDA API", "", 0))
    ELSE
        PlainError(Msg("Request error: ", axiosMessage(resp), 0))

\* axios resolves a 2xx answer and rejects everything else through the interceptor
Resolves(resp) == resp.kind = "http" /\ resp.status \in 200..299

\* get(endpoint, params), from the await on: NoThrow when response.data is returned,
\* otherwise the error the interceptor threw, re-thrown by the catch block
getThrows(resp) == IF Resolves(resp) THEN NoThrow ELSE handleAPIError(resp)

----------------------------------------------------------------------------
(* handlers/drug-handlers.js, handlers/device-handlers.js *)

\* the search expression a handler builds from a filter argument
SearchExpr(v) ==
    CASE v = "aspirin"  -> "field:\"aspirin\""
      [] v = "Class I"  -> "classification:\"Class I\""
      [] v = "Class IV" -> "classification:\"Class IV\""
      [] OTHER          -> ""

\* the searchParams a handler passes to the client: the filter as a search
\* expression, count, limit and skip as the caller gave them
handlerSearchParams(a) ==
    LET s0 == EmptyObject
        s1 == IF Has(a, "filter") /\ TruthyStr(a["filter"])
              THEN Put(s0, "search", SearchExpr(a["filter"])) ELSE s0
        s2 == IF Has(a, "count") THEN Put(s1, "count", a["count"]) ELSE s1
        s3 == IF Has(a, "limit") THEN Put(s2, "limit", a["limit"]) ELSE s2
        s4 == IF Has(a, "skip") THEN Put(s3, "skip", a["skip"]) ELSE s3
    IN  s4

\* the tools whose inputSchema declares the classification parameter, and its enum
RecallTools == {"search_drug_recalls", "search_device_recalls"}

ClassificationEnum == {"Class I", "Class II", "Class III"}

\* the searchParams the handler of one tool passes to the client: a declared
\* classification becomes the search expression, a key the tool does not
\* declare is not read
handlerSearchParamsFor(tool, a) ==
    IF tool \in RecallTools /\ Has(a, "classification") /\ TruthyStr(a["classification"])
    THEN Put(handlerSearchParams(a), "search", SearchExpr(a["classification"]))
    ELSE handlerSearchParams(a)

\* what a handler itself may throw while it formats a resolved response
HandlerFaults == {"none", "Error", "McpError", "NonError"}

handlerThrows(f) ==
    CASE f = "Error"    -> PlainError(Msg("Cannot read properties of undefined", "", 0))
      [] f = "McpError" -> Thrown("McpError", "InvalidParams", Msg("Invalid response shape", "", 0))
      [] f = "NonError" -> Thrown("NonError", "", Msg("a thrown string", "", 0))
      [] OTHER          -> NoThrow

\* the value a handler's promise ends with: the client's error passes through,
\* a resolved response is formatted into one item per record
handlerEnds(resp, f) ==
    IF getThrows(resp) # NoThrow THEN getThrows(resp) ELSE handlerThrows(f)

----------------------------------------------------------------------------
(* fda-server.js: the CallTool handler *)

Out(tag, error, items) == [tag |-> tag, error |-> error, items |-> items]

NoOutcome == Out("none", NoThrow, 0)

\* mutant: the catch block without the instanceof McpError test
dispatcherCatchWrapsAll(error) ==
    Thrown("McpError", "InternalError",
           IF error.cls \in {"Error", "McpError"} THEN error.message
           ELSE Msg("Unknown error occurred", "", 0))

\* mutant: the catch block re-throws whatever it caught
dispatcherCatchRethrows(error) == error

\* mutant: the catch block forgets error.message
dispatcherCatchDropsMessage(error) ==
    IF error.cls = "McpError" THEN error
    ELSE Thrown("McpError", "InternalError", Msg("Unknown error occurred", "", 0))

\* the catch block: an McpError is re-thrown, anything else becomes InternalError
dispatcherCatch(error) ==
    IF error.cls = "McpError" THEN error
    ELSE Thrown("McpError", "InternalError",
                IF error.cls = "Error" THEN error.message
                ELSE Msg("Unknown error occurred", "", 0))

\* the parameters a tool's inputSchema lists under required: no inputSchema
\* of the catalog has a required list
RequiredParams(tool) == {}

\* mutant: the switch has no case for the last tool of the catalog
routesWithoutLastCase(tool) == tool \in SwitchCases \ {"search_device_recalls"}

\* the switch: does the name select a handler?
routes(tool) == tool \in SwitchCases

----------------------------------------------------------------------------
(* Inputs *)

EnvKeys == {"", "env-key"}

ToolNames == ListedTools \cup {"delete_everything"}

LimitInputs ==
    ((LIMIT_MINIMUM - 1 - LimitSpan) .. (LIMIT_MINIMUM + LimitSpan))
    \cup ((MAX_LIMIT - LimitSpan) .. (MAX_LIMIT + LimitSpan))

SkipInputs == {0, 5}
CountInputs == {"", "openfda.brand_name.exact"}
FilterInputs == {"aspirin"}

OptField(k, V) == {EmptyObject} \cup { [x \in {k} |-> v] : v \in V }

\* the paging and filter arguments every tool declares
PagingArgSets ==
    { l @@ s @@ c @@ f :
        l \in OptField("limit", LimitInputs), s \in OptField("skip", SkipInputs),
        c \in OptField("count", CountInputs), f \in OptField("filter", FilterInputs) }

\* a recall search: classification inside and outside its enum, a limit, and
\* a key no tool declares
ClassificationInputs == {"Class I", "Class IV"}
UndeclaredKey == "format"

RecallArgSets ==
    { c @@ l @@ u :
        c \in OptField("classification", ClassificationInputs),
        l \in OptField("limit", {5}),
        u \in OptField(UndeclaredKey, {"xml"}) }

ArgSets == PagingArgSets \cup RecallArgSets

----------------------------------------------------------------------------
(* The FDA gateway: one tool call at a time *)

FdaIdle ==
    /\ phase = "Idle"
    /\ name = "none"
    /\ args = EmptyObject
    /\ fault = "none"
    /\ request = NoRequest
    /\ sent = 0
    /\ response = NoResponse
    /\ thrown = NoThrow
    /\ outcome = NoOutcome
    /\ trace = <<>>

SqlIdle ==
    /\ sqlPhase = "Idle"
    /\ sqlText = <<>>
    /\ sqlSent = <<>>
    /\ sqlOutcome = "none"

\* a finished call of another run of the server: the key that run used, the
\* call's inputs, the upstream answer and what the caller got
Run(key, n, a, resp, f, out) ==
    [key |-> key, name |-> n, args |-> a, response |-> resp, fault |-> f, outcome |-> out]

NoRun == Run("none", "none", EmptyObject, NoResponse, "none", NoOutcome)

KeyIdle == firstRun = NoRun

CliIdle ==
    /\ cliMethod = "none"
    /\ cliEndpoint = "none"
    /\ cliInput = EmptyObject
    /\ cliRequest = NoRequest
    /\ cliUndefined = {}
    /\ cliRequestUndefined = {}

\* the transports of one run, each known by its sessionId
Transports == 1 .. MaxSessions

\* a POST /messages: whether it has a sessionId, which, the message it brings,
\* the status sse.ts answered with (0: none, the transport answers), and the
\* transport whose handlePostMessage was called (0: none)
Post(hasId, sessionId, message, status, handledBy) ==
    [hasId |-> hasId, sessionId |-> sessionId, message |-> message,
     status |-> status, handledBy |-> handledBy]

NoPost == Post(FALSE, 0, "none", 0, 0)

SseIdle ==
    /\ transports = [t \in Transports |-> "unused"]
    /\ onclose = {}
    /\ sessions = EmptyObject
    /\ posted = NoPost
    /\ listed = <<>>
    /\ sigintListeners = 0

Calls == 1 .. MaxCalls

Call(ph, n, a, req, resp, out) ==
    [phase |-> ph, name |-> n, args |-> a, request |-> req, response |-> resp, outcome |-> out]

NoCall == Call("Idle", "none", EmptyObject, NoRequest, NoResponse, NoOutcome)

ConIdle == calls = [c \in Calls |-> NoCall]

Init ==
    /\ envKey \in EnvKeys
    /\ FdaIdle
    /\ SqlIdle
    /\ CliIdle
    /\ SseIdle
    /\ ConIdle
    /\ KeyIdle

\* a CallTool request arrives
ReceiveCall ==
    /\ phase = "Idle"
    /\ \E n \in ToolNames, a \in ArgSets :
        /\ name' = n
        /\ args' = a
    /\ phase' = "Received"
    /\ trace' = <<"Received">>
    /\ UNCHANGED <<envKey, fault, request, sent, response, thrown, outcome>>
    /\ UNCHANGED notFda

\* the switch on the name; default: throw McpError, caught and re-thrown at once
DispatchUnknown ==
    /\ phase = "Received"
    /\ ~routes(name)
    /\ thrown' = UnknownToolError(name)
    /\ outcome' = Out("error", dispatcherCatch(UnknownToolError(name)), 0)
    /\ phase' = "Done"
    /\ trace' = Append(trace, "Done")
    /\ UNCHANGED <<envKey, name, args, fault, request, sent, response>>
    /\ UNCHANGED notFda

\* mutant: the case refuses a call that brings no arguments
DispatchKnownRequiresArguments ==
    /\ phase = "Received"
    /\ routes(name)
    /\ IF args = EmptyObject
       THEN /\ thrown' = Thrown("McpError", "InvalidParams", Msg("Missing arguments", "", 0))
            /\ outcome' = Out("error", thrown', 0)
            /\ phase' = "Done"
            /\ trace' = Append(trace, "Done")
            /\ UNCHANGED <<request, sent>>
       ELSE /\ request' = clientSearch(Endpoint(name), handlerSearchParamsFor(name, args))
            /\ sent' = sent + 1
            /\ phase' = "Sending"
            /\ trace' = Append(trace, "Sending")
            /\ UNCHANGED <<thrown, outcome>>
    /\ UNCHANGED <<envKey, name, args, fault, response>>
    /\ UNCHANGED notFda

\* the switch on the name; a case: the handler runs up to the client's
\* await this.axiosInstance.get(endpoint, {params: requestParams})
DispatchKnown ==
    /\ phase = "Received"
    /\ routes(name)
    /\ request' = clientSearch(Endpoint(name), handlerSearchParamsFor(name, args))
    /\ sent' = sent + 1
    /\ phase' = "Sending"
    /\ trace' = Append(trace, "Sending")
    /\ UNCHANGED <<envKey, name, args, fault, response, thrown, outcome>>
    /\ UNCHANGED notFda

\* mutant: get issues the request again when the answer is 429
UpstreamRespondsRetrying ==
    /\ phase = "Sending"
    /\ \E resp \in Responses :
        /\ response' = resp
        /\ IF resp.status = 429 /\ sent < 3
           THEN /\ sent' = sent + 1
                /\ phase' = "Sending"
                /\ trace' = Append(trace, "Sending")
           ELSE /\ sent' = sent
                /\ phase' = "Formatting"
                /\ trace' = Append(trace, "Formatting")
    /\ UNCHANGED <<envKey, name, args, fault, request, thrown, outcome>>
    /\ UNCHANGED notFda

\* the upstream answers, fails, or the 30 s timeout of the axios instance fires
UpstreamResponds ==
    /\ phase = "Sending"
    /\ \E resp \in Responses : response' = resp
    /\ phase' = "Formatting"
    /\ trace' = Append(trace, "Formatting")
    /\ UNCHANGED <<envKey, name, args, fault, request, sent, thrown, outcome>>
    /\ UNCHANGED notFda

\* mutant: the dispatcher returns a result although the handler threw
dispatcherEndsSwallows(t, resp) ==
    IF t = NoThrow THEN Out("result", NoThrow, resp.records)
    ELSE Out("result", dispatcherCatch(t), 0)

\* what leaves the dispatcher for a handler that ended with value t
dispatcherEnds(t, resp) ==
    IF t = NoThrow THEN Out("result", NoThrow, resp.records)
    ELSE Out("error", dispatcherCatch(t), 0)

\* get returns response.data or throws; the handler formats or throws; the
\* dispatcher returns the handler's result or its catch block converts the error
CompleteCall ==
    /\ phase = "Formatting"
    /\ \E f \in HandlerFaults :
        /\ f = "none" \/ Resolves(response)
        /\ fault' = f
        /\ thrown' = handlerEnds(response, f)
        /\ outcome' = dispatcherEnds(handlerEnds(response, f), response)
    /\ phase' = "Done"
    /\ trace' = Append(trace, "Done")
    /\ UNCHANGED <<envKey, name, args, request, sent, response>>
    /\ UNCHANGED notFda

\* the call's objects are released; the server waits for the next request
ReleaseCall ==
    /\ phase = "Done"
    /\ phase' = "Idle"
    /\ name' = "none"
    /\ args' = EmptyObject
    /\ fault' = "none"
    /\ request' = NoRequest
    /\ sent' = 0
    /\ response' = NoResponse
    /\ thrown' = NoThrow
    /\ outcome' = NoOutcome
    /\ trace' = <<>>
    /\ UNCHANGED envKey
    /\ UNCHANGED notFda

Next ==
    \/ ReceiveCall
    \/ DispatchUnknown
    \/ DispatchKnown
    \/ UpstreamResponds
    \/ CompleteCall
    \/ ReleaseCall

Spec == Init /\ [][Next]_vars

\* the event loop runs every continuation that is ready, and the axios timeout
\* ends every request the upstream leaves unanswered
FairSpec ==
    /\ Spec
    /\ WF_vars(DispatchUnknown)
    /\ WF_vars(DispatchKnown)
    /\ WF_vars(UpstreamResponds)
    /\ WF_vars(CompleteCall)

----------------------------------------------------------------------------
(* The OpenGenes SQL tool: opengenes_db_query(sql) behind the Safety Filter *)

\* the operations the input validation blocks
MutatingKeywords == {"INSERT", "UPDATE", "DELETE", "DROP", "ALTER", "CREATE", "TRUNCATE"}

\* a statement is a sequence of tokens: keywords in either case, a word ("t"),
\* the statement separator, the string-literal quote, and whitespace ("ws")
SqlAlphabet == {"SELECT", "select", "DROP", "update", "t", ";", "'", "ws"}

SqlTexts == UNION { [1..n -> SqlAlphabet] : n \in 0..MaxSqlLen }

\* case normalisation of a token
Upper(tok) ==
    CASE tok = "select"   -> "SELECT"
      [] tok = "insert"   -> "INSERT"
      [] tok = "update"   -> "UPDATE"
      [] tok = "delete"   -> "DELETE"
      [] tok = "drop"     -> "DROP"
      [] tok = "alter"    -> "ALTER"
      [] tok = "create"   -> "CREATE"
      [] tok = "truncate" -> "TRUNCATE"
      [] OTHER            -> tok

RECURSIVE normalize(_)
\* whitespace dropped, case folded
normalize(text) ==
    IF text = <<>> THEN <<>>
    ELSE IF Head(text) = "ws" THEN normalize(Tail(text))
    ELSE <<Upper(Head(text))>> \o normalize(Tail(text))

RECURSIVE hasSeparator(_, _)
\* is there a statement separator outside the string literals?
hasSeparator(toks, inLiteral) ==
    IF toks = <<>> THEN FALSE
    ELSE IF Head(toks) = "'" THEN hasSeparator(Tail(toks), ~inLiteral)
    ELSE IF Head(toks) = ";" /\ ~inLiteral THEN TRUE
    ELSE hasSeparator(Tail(toks), inLiteral)

RECURSIVE hasMutating(_, _)
\* the scan of the remaining tokens: stops at the first mutating keyword
hasMutating(toks, inLiteral) ==
    IF toks = <<>> THEN FALSE
    ELSE IF Head(toks) = "'" THEN hasMutating(Tail(toks), ~inLiteral)
    ELSE IF Head(toks) \in MutatingKeywords /\ ~inLiteral THEN TRUE
    ELSE hasMutating(Tail(toks), inLiteral)

\* mutant: the filter looks at the first keyword only
safetyCheckFirstTokenOnly(text) ==
    LET n == normalize(text)
    IN  IF n = <<>> THEN "UnsafeQuery"
        ELSE IF Head(n) # "SELECT" THEN "UnsafeQuery"
        ELSE "ok"

\* mutant: the filter looks for keywords and separators anywhere, string
\* literals included
safetyCheckIgnoresLiterals(text) ==
    LET n == normalize(text)
    IN  IF n = <<>> THEN "UnsafeQuery"
        ELSE IF \E i \in DOMAIN n : n[i] = ";" THEN "UnsafeQuery"
        ELSE IF Head(n) # "SELECT" THEN "UnsafeQuery"
        ELSE IF \E i \in DOMAIN n : i > 1 /\ n[i] \in MutatingKeywords THEN "UnsafeQuery"
        ELSE "ok"

\* check(sqlText): ok, or UnsafeQuery
safetyCheck(text) ==
    LET n == normalize(text)
    IN  IF n = <<>> THEN "UnsafeQuery"
        ELSE IF hasSeparator(n, FALSE) THEN "UnsafeQuery"
        ELSE IF Head(n) # "SELECT" THEN "UnsafeQuery"
        ELSE IF hasMutating(Tail(n), FALSE) THEN "UnsafeQuery"
        ELSE "ok"

SqlInit ==
    /\ envKey = ""
    /\ FdaIdle
    /\ SqlIdle
    /\ CliIdle
    /\ SseIdle
    /\ ConIdle
    /\ KeyIdle

\* the SQL tool is called with a statement
SqlReceive ==
    /\ sqlPhase = "Idle"
    /\ \E text \in SqlTexts : sqlText' = text
    /\ sqlPhase' = "Received"
    /\ UNCHANGED <<sqlSent, sqlOutcome>>
    /\ UNCHANGED notSql

\* mutant: the statement is handed to the database before the filter has spoken
SqlSafetyCheckAfterSending ==
    /\ sqlPhase = "Received"
    /\ sqlSent' = Append(sqlSent, sqlText)
    /\ IF safetyCheck(sqlText) = "ok"
       THEN /\ sqlPhase' = "Sending"
            /\ sqlOutcome' = sqlOutcome
       ELSE /\ sqlPhase' = "Done"
            /\ sqlOutcome' = "UnsafeQuery"
    /\ UNCHANGED sqlText
    /\ UNCHANGED notSql

\* the dispatcher runs the Safety Filter: a rejected statement ends the call,
\* an accepted one is handed to the database as the caller wrote it
SqlSafetyCheck ==
    /\ sqlPhase = "Received"
    /\ IF safetyCheck(sqlText) = "ok"
       THEN /\ sqlPhase' = "Sending"
            /\ sqlSent' = Append(sqlSent, sqlText)
            /\ sqlOutcome' = sqlOutcome
       ELSE /\ sqlPhase' = "Done"
            /\ sqlSent' = sqlSent
            /\ sqlOutcome' = "UnsafeQuery"
    /\ UNCHANGED sqlText
    /\ UNCHANGED notSql

\* the database returns rows, or fails
SqlDatabaseAnswers ==
    /\ sqlPhase = "Sending"
    /\ \E o \in {"result", "Unknown"} : sqlOutcome' = o
    /\ sqlPhase' = "Done"
    /\ UNCHANGED <<sqlText, sqlSent>>
    /\ UNCHANGED notSql

\* the call's objects are released
SqlRelease ==
    /\ sqlPhase = "Done"
    /\ sqlPhase' = "Idle"
    /\ sqlText' = <<>>
    /\ sqlSent' = <<>>
    /\ sqlOutcome' = "none"
    /\ UNCHANGED notSql

SqlNext ==
    \/ SqlReceive
    \/ SqlSafetyCheck
    \/ SqlDatabaseAnswers
    \/ SqlRelease

SqlSpec == SqlInit /\ [][SqlNext]_vars

----------------------------------------------------------------------------
(* Vocabulary of the claims *)

ToolErrorKinds ==
    { "InvalidTool", "InvalidArgument", "UnsafeQuery", "UpstreamRateLimited",
      "UpstreamUnavailable", "UpstreamClientError", "UpstreamServerError", "Unknown" }

\* the ToolError kind a thrown value stands for: an McpError by its code, and
\* nothing of the taxonomy for a value that is not an McpError
ToolErrorKind(e) ==
    IF e.cls # "McpError" THEN "raw exception"
    ELSE CASE e.code = "MethodNotFound" -> "InvalidTool"
           [] e.code = "InvalidParams"  -> "InvalidArgument"
           [] e.code = "InternalError"  -> "Unknown"
           [] OTHER                     -> "no kind"

\* the upstream status an error lets the caller read: an McpError has a code and
\* a message only, so the status is there when the message interpolates it
StatusCarried(e) == e.message.status

Count(seq, x) == Cardinality({ i \in DOMAIN seq : seq[i] = x })

Answered == phase = "Done" /\ response # NoResponse

AnsweredHttp(status) == Answered /\ response.kind = "http" /\ response.status = status

InternalError(message) == Thrown("McpError", "InternalError", message)

----------------------------------------------------------------------------
(* C1 *)

\* C1: a call whose name is not a tool of the catalog goes from Received straight
\* to Done with McpError MethodNotFound "Unknown tool: <name>"; no handler runs and
\* no upstream request is built or sent for it.
C1_UnknownToolShortCircuits ==
    (phase # "Idle" /\ name \notin ListedTools) =>
        /\ sent = 0
        /\ request = NoRequest
        /\ Count(trace, "Sending") = 0
        /\ phase \in {"Received", "Done"}
        /\ phase = "Done" =>
            /\ trace = <<"Received", "Done">>
            /\ outcome = Out("error", UnknownToolError(name), 0)

C1_Witness ==
    /\ phase = "Done"
    /\ name = "delete_everything"
    /\ outcome.error.code = "MethodNotFound"

----------------------------------------------------------------------------
(* C2 *)

\* token i lies inside a string literal: an odd number of quotes precede it
InLiteral(text, i) ==
    /\ text[i] # "'"
    /\ Cardinality({ j \in 1..(i - 1) : text[j] = "'" }) % 2 = 1

StatementLevel(text, i) == text[i] # "'" /\ ~InLiteral(text, i)

FirstToken(text, i) == text[i] # "ws" /\ \A j \in 1..(i - 1) : text[j] = "ws"

\* one statement, beginning with SELECT, with no mutating keyword and no
\* separator at statement level
SingleReadOnlySelect(text) ==
    /\ \E i \in DOMAIN text : FirstToken(text, i) /\ Upper(text[i]) = "SELECT"
    /\ \A i \in DOMAIN text :
        StatementLevel(text, i) => Upper(text[i]) \notin MutatingKeywords \cup {";"}

\* C2: a statement that is not a single read-only SELECT ends the call with
\* UnsafeQuery, and nothing was handed to the database for that call at any
\* point of it; "DROP TABLE lifespan_change" is such a statement.
C2_UnsafeNeverSent ==
    /\ (sqlPhase # "Idle" /\ ~SingleReadOnlySelect(sqlText)) =>
        /\ sqlSent = <<>>
        /\ sqlPhase \in {"Received", "Done"}
        /\ sqlPhase = "Done" => sqlOutcome = "UnsafeQuery"
    /\ ~SingleReadOnlySelect(<<"DROP", "ws", "t", "ws", "t">>)

C2_Witness ==
    /\ sqlPhase = "Done"
    /\ sqlText = <<"DROP", "ws", "t">>
    /\ sqlOutcome = "UnsafeQuery"
    /\ sqlSent = <<>>

----------------------------------------------------------------------------
(* C3 *)

\* C3: every statement handed to the database is one statement whose first
\* token that is not whitespace is SELECT in either case, with no mutating
\* keyword and no separator at statement level; the filter accepts
\* "SELECT * FROM t" and rejects "UPDATE t SET x=1" and
\* "select * from t; DROP TABLE t".
C3_OnlySingleSelectSent ==
    /\ \A i \in DOMAIN sqlSent : SingleReadOnlySelect(sqlSent[i])
    /\ Len(sqlSent) <= 1
    /\ safetyCheck(<<"SELECT", "ws", "t", "ws", "t", "ws", "t">>) = "ok"
    /\ safetyCheck(<<"UPDATE", "ws", "t", "ws", "t", "ws", "t">>) = "UnsafeQuery"
    /\ safetyCheck(<<"select", "ws", "t", "ws", "t", "ws", "t", ";", "ws", "DROP", "ws", "t", "ws", "t">>)
        = "UnsafeQuery"

C3_Witness ==
    /\ sqlPhase = "Sending"
    /\ sqlSent = << <<"ws", "select", "t">> >>

----------------------------------------------------------------------------
(* C4 *)

\* C4: the limit of every upstream request lies within the declared bounds
\* [1, 100], whatever limit the caller supplied.
C4_LimitWithinBounds ==
    sent > 0 =>
        /\ Has(request.params, "limit")
        /\ request.params["limit"] \in LIMIT_MINIMUM..LIMIT_MAXIMUM

----------------------------------------------------------------------------
(* C5 *)

----------------------------------------------------------------------------
(* C6 *)

\* C6 as claimed: an HTTP 404, and an empty result set, end the call with an
\* empty ToolResult and not with an error.
C6_NotFoundIsEmptyResult ==
    (AnsweredHttp(404) \/ (AnsweredHttp(200) /\ response.records = 0 /\ fault = "none")) =>
        outcome = Out("result", NoThrow, 0)

\* C6 as amended: an HTTP 404 ends the call with an McpError of code InternalError
\* and the message "No results found for the given search criteria"; an HTTP 200
\* with an empty result set, formatted by the handler, ends it with an empty
\* ToolResult.
C6_NotFoundIsError ==
    /\ AnsweredHttp(404) =>
        outcome = Out("error",
                      InternalError(Msg("No results found for the given search criteria", "", 0)), 0)
    /\ (AnsweredHttp(200) /\ response.records = 0 /\ fault = "none") =>
        outcome = Out("result", NoThrow, 0)

C6_Witness == AnsweredHttp(404) /\ outcome.tag = "error"

----------------------------------------------------------------------------
(* C7 *)

TransportFailure == response.kind \in {"norequestanswer", "setup"}

\* the kind the claim gives each upstream failure
ClaimedKind(resp) ==
    CASE resp.kind = "http" /\ resp.status = 400         -> "InvalidArgument"
      [] resp.kind = "http" /\ resp.status \in 500..599  -> "UpstreamServerError"
      [] resp.kind = "norequestanswer"                   -> "UpstreamUnavailable"
      [] OTHER                                           -> "any"

MessageText(resp) ==
    CASE resp.kind = "http" /\ resp.status = 400 -> "Bad Request: "
      [] resp.kind = "http" /\ resp.status = 404 -> "No results found for the given search criteria"
      [] resp.kind = "http" /\ resp.status = 429 -> "Rate limit exceeded. "
      [] resp.kind = "http" /\ resp.status = 500 -> "FDA API server error. Please try again later"
      [] resp.kind = "http" /\ resp.status = 503 -> "FDA API service temporarily unavailable"
      [] resp.kind = "http"                      -> "FDA API error (status): "
      [] resp.kind = "norequestanswer"           -> "Network error: Unable to connect to FDA API"
      [] OTHER                                   -> "Request error: "

TransportTexts == {"Network error: Unable to connect to FDA API", "Request error: "}

----------------------------------------------------------------------------
(* C8 *)

\* C8: whatever is thrown while a call is handled leaves the dispatcher as an
\* McpError, whose code stands for a kind of the ToolError taxonomy; a call in
\* which nothing was thrown returns a result; no other value leaves.
C8_NoRawException ==
    phase = "Done" =>
        /\ thrown = NoThrow <=> outcome.tag = "result"
        /\ thrown # NoThrow =>
            /\ outcome.tag = "error"
            /\ outcome.error.cls = "McpError"
            /\ ToolErrorKind(outcome.error) \in ToolErrorKinds

C8_Witness ==
    /\ phase = "Done"
    /\ thrown.cls = "NonError"
    /\ outcome.error = InternalError(Msg("Unknown error occurred", "", 0))

----------------------------------------------------------------------------
(* C9 *)

\* C9: a call issues at most one upstream request and enters Sending at most
\* once, whatever the upstream answers; once answered, exactly one was issued.
C9_AtMostOneRequest ==
    /\ sent <= 1
    /\ Count(trace, "Sending") <= 1
    /\ Answered => sent = 1

C9_Witness == AnsweredHttp(429) /\ sent = 1

----------------------------------------------------------------------------
(* C10 *)

CallInFlight == phase \in {"Received", "Sending", "Formatting"}

\* C10: every call that is received reaches Done; before Done some step of the
\* call is always possible; Done carries either a result or an error, not both
\* and not neither.
C10_ReachesDoneWithOneOutcome ==
    /\ [](CallInFlight => ENABLED (DispatchUnknown \/ DispatchKnown \/ UpstreamResponds \/ CompleteCall))
    /\ [](CallInFlight => outcome = NoOutcome)
    /\ [](phase = "Done" => (outcome.tag = "result") # (outcome.error # NoThrow))
    /\ [](phase = "Done" => outcome.tag \in {"result", "error"})
    /\ (phase = "Received") ~> (phase = "Done")

C10_Witness == phase = "Done" /\ outcome.tag = "result" /\ outcome.items = MaxRecords

----------------------------------------------------------------------------
(* C11: the stages of one dispatch *)

\* the stages in their order; the FDA dispatcher enters Received, Sending,
\* Formatting and Done, the handler's reading of the arguments and the
\* client's building of the request being part of the step that sends
StageOrder ==
    <<"Received", "Validating", "Building", "SafetyChecking", "Sending", "Formatting", "Done">>

StageIndex(st) == CHOOSE i \in DOMAIN StageOrder : StageOrder[i] = st

\* strictly ascending in the stage order: in order, and no stage twice
Ascending(tr) ==
    \A i \in DOMAIN tr : \A j \in DOMAIN tr :
        i < j => StageIndex(tr[i]) < StageIndex(tr[j])

\* a stage is left out only by going straight to Done with an error
SkipsOnlyToError ==
    /\ (Count(trace, "Formatting") = 1) => (Count(trace, "Sending") = 1)
    /\ (Count(trace, "Done") = 1 /\ Count(trace, "Formatting") = 0)
           => (outcome.tag = "error" /\ sent = 0)

\* what validation against the tool's inputSchema leaves: a limit within its
\* declared bounds, a classification within its enum
ArgumentsValidated ==
    /\ Has(request.params, "limit")
           => (request.params["limit"] >= LIMIT_MINIMUM /\ request.params["limit"] <= LIMIT_MAXIMUM)
    /\ (name \in RecallTools /\ Has(args, "classification"))
           => args["classification"] \in ClassificationEnum

\* the order of the stages alone, which the dispatcher keeps
C11_OrderKept ==
    /\ trace = <<>> \/ trace[1] = "Received"
    /\ Ascending(trace)
    /\ SkipsOnlyToError

\* C11: within one dispatch the stages occur only in the order Received,
\* Validating, Building, Sending, Formatting, Done, no stage twice; a stage
\* is left out only by going straight to Done with an error; and no upstream
\* request is sent for arguments that were not validated.
C11_StagesInOrderOnValidatedArguments ==
    /\ C11_OrderKept
    /\ (sent > 0) => ArgumentsValidated

----------------------------------------------------------------------------
(* C13: running without a key *)

\* C13: when the FDA_API_KEY environment variable is not set the client runs
\* keyless: hasAPIKey is false, no api_key parameter is sent, and getUsageInfo
\* reports 40 requests per minute and 1,000 per hour.
C13_KeylessWhenUnset ==
    (envKey = "") =>
        /\ ~hasAPIKey
        /\ (sent > 0) => ~Has(request.params, "api_key")
        /\ getUsageInfo.hasAPIKey = FALSE
        /\ getUsageInfo.requestsPerMinute = REQUESTS_PER_MINUTE_NO_KEY
        /\ getUsageInfo.requestsPerHour = REQUESTS_PER_HOUR_NO_KEY

----------------------------------------------------------------------------
(* C14: required parameters *)

\* the call was refused as an invalid argument set, before any request
RejectedInvalid ==
    /\ phase = "Done"
    /\ sent = 0
    /\ outcome.tag = "error"
    /\ ToolErrorKind(outcome.error) = "InvalidArgument"

Dispatched == phase \in {"Sending", "Formatting", "Done"}

----------------------------------------------------------------------------
(* C15: enum parameters *)

EnumViolation ==
    /\ name \in RecallTools
    /\ Has(args, "classification")
    /\ args["classification"] \notin ClassificationEnum

\* C15: a call whose enum parameter has a value outside the allowed set
\* (classification = "Class IV" for a recall search) fails with
\* InvalidArgument naming the parameter, and no upstream request is sent.
C15_EnumViolationRejected ==
    (EnumViolation /\ Dispatched) =>
        /\ sent = 0
        /\ phase = "Done"
        /\ RejectedInvalid
        /\ outcome.error.message.detail = "classification"

----------------------------------------------------------------------------
(* C17: a valid recall search, end to end *)

\* search_drug_recalls with {classification: "Class I", limit: 5}
RecallScenario ==
    /\ name = "search_drug_recalls"
    /\ DOMAIN args = {"classification", "limit"}
    /\ args["classification"] = "Class I"
    /\ args["limit"] = 5

\* HTTP 200 with three records, formatted without a fault
ThreeRecordsFormatted ==
    /\ phase = "Done"
    /\ response.kind = "http"
    /\ response.status = 200
    /\ response.records = 3
    /\ fault = "none"

ThreeItemsNoError ==
    /\ outcome.tag = "result"
    /\ outcome.items = 3
    /\ outcome.error = NoThrow

----------------------------------------------------------------------------
(* FDAAPIClient called directly: the search* methods and get *)

\* the endpoints of the twelve search* methods
ClientEndpoints ==
    { "/drug/event.json", "/drug/label.json", "/drug/ndc.json", "/drug/enforcement.json",
      "/drug/drugsfda.json", "/drug/drugshortages.json", "/device/510k.json",
      "/device/classification.json", "/device/event.json", "/device/enforcement.json",
      "/food/event.json", "/food/enforcement.json" }

\* what a caller may pass: the four keys the client knows, with truthy and
\* falsy values, a key of its own named api_key, and a key nobody declares
ClientParamSets ==
    { se @@ c @@ l @@ sk @@ k @@ u :
        se \in OptField("search", {"", "field:\"aspirin\""}),
        c \in OptField("count", {"openfda.brand_name.exact"}),
        l \in OptField("limit", {-1, 0, 5, MAX_LIMIT + 1}),
        sk \in OptField("skip", SkipInputs),
        k \in OptField("api_key", {"caller-key"}),
        u \in OptField(UndeclaredKey, {"xml"}) }

ClientInit ==
    /\ envKey \in EnvKeys
    /\ FdaIdle
    /\ SqlIdle
    /\ CliIdle
    /\ SseIdle
    /\ ConIdle
    /\ KeyIdle

\* the keys a caller may pass with the value undefined
UndefinedKeySets == SUBSET {"skip", "limit"}

\* one of the search* methods is called
ClientSearchCalled ==
    /\ cliMethod = "none"
    /\ \E e \in ClientEndpoints, sp \in ClientParamSets, u \in UndefinedKeySets :
        /\ u \cap DOMAIN sp = {}
        /\ cliEndpoint' = e
        /\ cliInput' = sp
        /\ cliUndefined' = u
        /\ cliRequest' = clientSearch(e, sp)
        /\ cliRequestUndefined' = getSweep(getUndefinedBeforeSweep(buildUndefined(u)))
    /\ cliMethod' = "search"
    /\ UNCHANGED notCli

\* get is called with params of the caller's own
ClientGetCalled ==
    /\ cliMethod = "none"
    /\ \E e \in ClientEndpoints, p \in ClientParamSets, u \in UndefinedKeySets :
        /\ u \cap DOMAIN p = {}
        /\ cliEndpoint' = e
        /\ cliInput' = p
        /\ cliUndefined' = u
        /\ cliRequest' = [endpoint |-> e, params |-> getRequestParams(p)]
        /\ cliRequestUndefined' = getSweep(getUndefinedBeforeSweep(u))
    /\ cliMethod' = "get"
    /\ UNCHANGED notCli

\* the call is over
ClientReturns ==
    /\ cliMethod # "none"
    /\ cliMethod' = "none"
    /\ cliEndpoint' = "none"
    /\ cliInput' = EmptyObject
    /\ cliRequest' = NoRequest
    /\ cliUndefined' = {}
    /\ cliRequestUndefined' = {}
    /\ UNCHANGED notCli

ClientNext ==
    \/ ClientSearchCalled
    \/ ClientGetCalled
    \/ ClientReturns

ClientSpec == ClientInit /\ [][ClientNext]_vars

----------------------------------------------------------------------------
(* C12: the key on every request *)

\* C12: every outbound request carries the configured API key as its api_key
\* parameter, for every endpoint and whatever parameters the caller passed;
\* an api_key the caller supplied never replaces it.
C12_KeyOnEveryRequest ==
    (cliMethod # "none") =>
        /\ Has(cliRequest.params, "api_key")
        /\ cliRequest.params["api_key"] = FDA_API_KEY
        /\ (envKey # "") => cliRequest.params["api_key"] = envKey

C12_Witness ==
    /\ cliMethod = "get"
    /\ envKey # ""
    /\ Has(cliInput, "api_key")
    /\ cliInput["api_key"] # envKey
    /\ cliRequest.params["api_key"] = envKey

----------------------------------------------------------------------------
(* C16: the keys of the upstream query *)

KnownKeys == {"search", "count", "limit", "skip", "api_key"}

\* C16: the request a search* method builds contains only the keys search,
\* count, limit and skip plus api_key: a key of the caller's that is not one
\* of them never appears upstream, whichever of the methods was called.
C16_OnlyKnownKeys ==
    (cliMethod = "search") => (DOMAIN cliRequest.params \subseteq KnownKeys)

C16_Witness ==
    /\ cliMethod = "search"
    /\ Has(cliInput, UndeclaredKey)
    /\ ~Has(cliRequest.params, UndeclaredKey)

----------------------------------------------------------------------------
(* sse.ts: sessions over SSE, one FDAServer per connection *)

\* the names of the tools array of the ListTools handler, in its order
ToolsListed ==
    << "search_drug_adverse_events", "search_drug_labels", "search_drug_ndc",
       "search_drug_recalls", "search_drugs_fda", "search_drug_shortages",
       "search_device_510k", "search_device_classifications",
       "search_device_adverse_events", "search_device_recalls" >>

\* mutant: the handler lists fewer tools the more sessions are registered
listToolsPerSession ==
    SubSeq(ToolsListed, 1, Len(ToolsListed) - Cardinality(DOMAIN sessions))

\* the ListTools handler: async () => ({tools: [...]})
listTools == ToolsListed

\* the messages a POST brings: a ListTools request, a call of a listed tool,
\* a call of an unknown tool
Messages == {"tools/list", "search_drug_labels", "delete_everything"}

\* sessionIds a POST may name: those of the transports and one never issued
SessionIds == 1 .. (MaxSessions + 1)

SseInit ==
    /\ envKey \in EnvKeys
    /\ FdaIdle
    /\ SqlIdle
    /\ CliIdle
    /\ SseIdle
    /\ ConIdle
    /\ KeyIdle

\* GET /sse up to the await: new SSEServerTransport, new FDAServer (whose
\* constructor adds a SIGINT listener to the process), server.connect(transport)
\* started, which sends the endpoint event with the sessionId
OpenSse ==
    /\ \E t \in Transports :
        /\ transports[t] = "unused"
        /\ \A u \in Transports : u < t => transports[u] # "unused"
        /\ transports' = [transports EXCEPT ![t] = "connecting"]
    /\ sigintListeners' = sigintListeners + 1
    /\ UNCHANGED <<onclose, sessions, posted, listed>>
    /\ UNCHANGED notSse

\* GET /sse after the await: sessions.set(transport.sessionId, transport),
\* then transport.onclose is assigned
ConnectResolves ==
    /\ \E t \in Transports :
        /\ transports[t] \in {"connecting", "connectingClosed"}
        /\ transports' = [transports EXCEPT
                             ![t] = IF transports[t] = "connecting" THEN "open" ELSE "closed"]
        /\ sessions' = Put(sessions, t, t)
        /\ onclose' = onclose \cup {t}
    /\ UNCHANGED <<posted, listed, sigintListeners>>
    /\ UNCHANGED notSse

\* the client's connection ends: the transport calls its onclose, if it has one
CloseTransport ==
    /\ \E t \in Transports :
        /\ transports[t] \in {"connecting", "open"}
        /\ transports' = [transports EXCEPT
                             ![t] = IF transports[t] = "connecting"
                                    THEN "connectingClosed" ELSE "closed"]
        /\ sessions' = IF t \in onclose
                       THEN [s \in (DOMAIN sessions) \ {t} |-> sessions[s]]
                       ELSE sessions
    /\ UNCHANGED <<onclose, posted, listed, sigintListeners>>
    /\ UNCHANGED notSse

\* what the server behind an open transport answers to a message
Answer(message) ==
    CASE message = "tools/list" -> "tools"
      [] routes(message)        -> "result"
      [] OTHER                  -> "error"

\* mutant: a POST that names no registered session goes to the first
\* registered transport
PostMessageToAnyTransport ==
    /\ \E hasId \in BOOLEAN, sid \in SessionIds, m \in Messages :
        LET t == IF hasId /\ Has(sessions, sid) THEN sessions[sid]
                 ELSE IF DOMAIN sessions # {} THEN sessions[CHOOSE s \in DOMAIN sessions : TRUE]
                 ELSE 0
        IN  /\ posted' = Post(hasId, sid, m,
                              IF t # 0 THEN 0 ELSE IF hasId THEN 404 ELSE 400, t)
            /\ listed' = IF t # 0 /\ transports[t] = "open" /\ m = "tools/list"
                         THEN listTools ELSE listed
    /\ UNCHANGED <<transports, onclose, sessions, sigintListeners>>
    /\ UNCHANGED notSse

\* POST /messages: 400 without a sessionId, 404 when sessions.get finds
\* nothing, otherwise transport.handlePostMessage(req, res)
PostMessage ==
    /\ \E hasId \in BOOLEAN, sid \in SessionIds, m \in Messages :
        IF ~hasId
        THEN /\ posted' = Post(FALSE, sid, m, 400, 0)
             /\ listed' = listed
        ELSE IF ~Has(sessions, sid)
        THEN /\ posted' = Post(TRUE, sid, m, 404, 0)
             /\ listed' = listed
        ELSE /\ posted' = Post(TRUE, sid, m, 0, sessions[sid])
             /\ listed' = IF transports[sessions[sid]] = "open" /\ m = "tools/list"
                          THEN listTools ELSE listed
    /\ UNCHANGED <<transports, onclose, sessions, sigintListeners>>
    /\ UNCHANGED notSse

SseNext ==
    \/ OpenSse
    \/ ConnectResolves
    \/ CloseTransport
    \/ PostMessage

SseSpec == SseInit /\ [][SseNext]_vars

----------------------------------------------------------------------------
(* C18: the catalog *)

Range(seq) == { seq[i] : i \in DOMAIN seq }

\* C18: the tool catalog is the same in every reachable state: whatever
\* sessions were opened or closed and whatever calls succeeded or failed,
\* a ListTools response lists the same tools; and tool names are unique.
C18_CatalogConstant ==
    /\ (listed # <<>>) => (listed = ToolsListed)
    /\ listTools = ToolsListed
    /\ Cardinality(Range(ToolsListed)) = Len(ToolsListed)
    /\ Range(ToolsListed) = ListedTools

C18_Witness ==
    /\ listed = ToolsListed
    /\ \E t \in Transports : transports[t] = "closed"
    /\ \E t \in Transports : transports[t] = "open"
    /\ posted.message = "delete_everything"
    /\ posted.handledBy # 0

----------------------------------------------------------------------------
(* C20: routing a POST to its session *)

\* C20: a POST /messages without a sessionId is answered 400 and one whose
\* sessionId is not in the session map 404; in both cases no transport
\* handles the message and the session map is unchanged; a POST with a
\* registered sessionId is handed to exactly the transport registered under
\* that id.
C20_PostRouting ==
    [][ (posted' # posted) =>
           /\ sessions' = sessions
           /\ (~posted'.hasId) => (posted'.status = 400 /\ posted'.handledBy = 0)
           /\ (posted'.hasId /\ ~Has(sessions, posted'.sessionId))
                  => (posted'.status = 404 /\ posted'.handledBy = 0)
           /\ (posted'.hasId /\ Has(sessions, posted'.sessionId))
                  => (posted'.status = 0 /\ posted'.handledBy = sessions[posted'.sessionId])
      ]_vars

C20_Witness ==
    /\ Cardinality(DOMAIN sessions) = 2
    /\ posted.hasId
    /\ posted.sessionId = 2
    /\ posted.handledBy = 2

----------------------------------------------------------------------------
(* Tool calls in flight together: one dispatcher, one fdaAPIClient *)

ConNames == {"search_drug_recalls", "search_drug_labels", "delete_everything"}

ConArgSets ==
    { EmptyObject,
      [k \in {"limit"} |-> 5],
      [k \in {"skip"} |-> 5] @@ [k \in {"count"} |-> "openfda.brand_name.exact"] }

ConResponses ==
    { Resp("http", 200, "", 1), Resp("http", 429, "", 0), Resp("norequestanswer", 0, "", 0) }

ConInit ==
    /\ envKey \in EnvKeys
    /\ FdaIdle
    /\ SqlIdle
    /\ CliIdle
    /\ SseIdle
    /\ ConIdle
    /\ KeyIdle

\* a CallTool request arrives while others may be in flight
ConReceive ==
    /\ \E c \in Calls :
        /\ calls[c].phase = "Idle"
        /\ \E n \in ConNames, a \in ConArgSets :
            calls' = [calls EXCEPT ![c] = Call("Received", n, a, NoRequest, NoResponse, NoOutcome)]
    /\ UNCHANGED notCon

\* the switch's default for this call
ConDispatchUnknown ==
    /\ \E c \in Calls :
        /\ calls[c].phase = "Received"
        /\ ~routes(calls[c].name)
        /\ calls' = [calls EXCEPT
                        ![c].phase = "Done",
                        ![c].outcome = Out("error", dispatcherCatch(UnknownToolError(calls[c].name)), 0)]
    /\ UNCHANGED notCon

\* mutant: the client builds the params in an object it keeps between calls,
\* so the keys of a request still in flight stay in the next one
ConDispatchKnownSharedParams ==
    /\ \E c \in Calls :
        /\ calls[c].phase = "Received"
        /\ routes(calls[c].name)
        /\ LET own == clientSearch(Endpoint(calls[c].name),
                                   handlerSearchParamsFor(calls[c].name, calls[c].args))
               others == { d \in Calls : d # c /\ calls[d].phase = "Sending" }
               left == IF others = {} THEN EmptyObject
                       ELSE calls[CHOOSE d \in others : TRUE].request.params
           IN  calls' = [calls EXCEPT
                            ![c].phase = "Sending",
                            ![c].request = [endpoint |-> own.endpoint,
                                            params |-> own.params @@ left]]
    /\ UNCHANGED notCon

\* this call's handler runs up to the client's await: the request is built
\* from the call's own arguments in objects created for the call
ConDispatchKnown ==
    /\ \E c \in Calls :
        /\ calls[c].phase = "Received"
        /\ routes(calls[c].name)
        /\ calls' = [calls EXCEPT
                        ![c].phase = "Sending",
                        ![c].request = clientSearch(Endpoint(calls[c].name),
                                           handlerSearchParamsFor(calls[c].name, calls[c].args))]
    /\ UNCHANGED notCon

\* this call's request ends, in any order with the others'; the handler
\* formats and the dispatcher returns or converts the error
ConComplete ==
    /\ \E c \in Calls :
        /\ calls[c].phase = "Sending"
        /\ \E resp \in ConResponses :
            calls' = [calls EXCEPT
                         ![c].phase = "Done",
                         ![c].response = resp,
                         ![c].outcome = dispatcherEnds(handlerEnds(resp, "none"), resp)]
    /\ UNCHANGED notCon

ConNext ==
    \/ ConReceive
    \/ ConDispatchUnknown
    \/ ConDispatchKnown
    \/ ConComplete

ConSpec == ConInit /\ [][ConNext]_vars

----------------------------------------------------------------------------
(* C19: calls in flight together do not affect one another *)

\* what the call sends and returns when it runs alone: functions of its own
\* name, arguments and upstream answer
RequestAlone(call) ==
    clientSearch(Endpoint(call.name), handlerSearchParamsFor(call.name, call.args))

OutcomeAlone(call) ==
    IF routes(call.name)
    THEN dispatcherEnds(handlerEnds(call.response, "none"), call.response)
    ELSE Out("error", dispatcherCatch(UnknownToolError(call.name)), 0)

SameAsAlone ==
    \A c \in Calls :
        /\ (calls[c].phase \in {"Sending", "Done"} /\ routes(calls[c].name))
               => calls[c].request = RequestAlone(calls[c])
        /\ (calls[c].phase = "Done" /\ ~routes(calls[c].name))
               => calls[c].request = NoRequest
        /\ (calls[c].phase = "Done") => calls[c].outcome = OutcomeAlone(calls[c])

----------------------------------------------------------------------------
(* C21: a closed session leaves the map *)

----------------------------------------------------------------------------
(* C28: a POST right after the endpoint event *)

SessionAlive(t) == t \in Transports /\ transports[t] \in {"connecting", "open"}

----------------------------------------------------------------------------
(* C30: what a session leaves behind *)

LiveSessions == { t \in Transports : transports[t] \in {"connecting", "open"} }

\* C30: nothing created for a session stays registered after it has closed:
\* the process has no more SIGINT listeners than sessions that are still
\* alive, however many sessions were opened.
C30_NoResidue == sigintListeners <= Cardinality(LiveSessions)

----------------------------------------------------------------------------
(* C23: keywords inside string literals *)

\* C23: the Safety Filter accepts a single SELECT statement in which a
\* mutating keyword or a separator occurs only inside a string literal: it
\* is handed to the database as written; "SELECT * FROM t WHERE name='DROP'"
\* is accepted.
C23_LiteralKeywordAccepted ==
    /\ (sqlPhase \in {"Sending", "Done"} /\ SingleReadOnlySelect(sqlText)) =>
          /\ sqlSent = <<sqlText>>
          /\ sqlOutcome # "UnsafeQuery"
    /\ safetyCheck(<<"SELECT", "ws", "t", "ws", "t", "ws", "t", "ws", "t", "ws", "t",
                     "'", "DROP", "'">>) = "ok"

C23_Witness ==
    /\ sqlPhase = "Sending"
    /\ sqlSent = <<sqlText>>
    /\ \E i \in DOMAIN sqlText :
          /\ InLiteral(sqlText, i)
          /\ Upper(sqlText[i]) \in MutatingKeywords \cup {";"}

----------------------------------------------------------------------------
(* C24: building the query and reading it back *)

\* the caller's searchParams are validated arguments: declared keys only,
\* each with a value, limit and skip within their declared bounds
ValidatedInput ==
    /\ cliMethod = "search"
    /\ cliUndefined = {}
    /\ DOMAIN cliInput \subseteq {"search", "count", "limit", "skip"}
    /\ Has(cliInput, "limit")
           => (cliInput["limit"] >= LIMIT_MINIMUM /\ cliInput["limit"] <= LIMIT_MAXIMUM)
    /\ Has(cliInput, "skip") => cliInput["skip"] >= 0

\* the arguments read back from the query parameters: every parameter but
\* the credential
Reparsed == [k \in (DOMAIN cliRequest.params) \ {"api_key"} |-> cliRequest.params[k]]

\* C24: for every set of validated arguments, building the upstream query
\* and re-parsing its parameters recovers the arguments: no key present in
\* them is lost, a key whose value is 0 included, no value is changed, and
\* nothing is added but the default limit.
C24_RoundTrip ==
    ValidatedInput =>
        /\ \A k \in DOMAIN cliInput : Has(Reparsed, k) /\ Reparsed[k] = cliInput[k]
        /\ DOMAIN Reparsed \subseteq (DOMAIN cliInput) \cup {"limit"}

----------------------------------------------------------------------------
(* C25: the limit bound applied twice *)

\* the limit get sends for a limit it is given
LimitOnce(p) == getRequestParams(p)["limit"]

\* C25: applying the bound in buildSearchParams and then again in get gives
\* the same upstream limit as applying it in get alone, and normalising the
\* limit that was sent gives that limit again, for every limit passed in.
C25_LimitIdempotent ==
    (cliMethod # "none") =>
        /\ cliRequest.params["limit"] = LimitOnce(cliInput)
        /\ LimitOnce(cliRequest.params) = cliRequest.params["limit"]
        /\ getRequestParams(buildSearchParams(cliRequest.params))["limit"]
               = cliRequest.params["limit"]

C25_Witness ==
    /\ cliMethod = "search"
    /\ Has(cliInput, "limit")
    /\ cliInput["limit"] > MAX_LIMIT
    /\ cliRequest.params["limit"] = MAX_LIMIT

----------------------------------------------------------------------------
(* C26: defaults and absent keys *)

\* C26: a call that supplies no limit is sent with limit = 10; a call that
\* supplies no value for search, count or skip sends no such key; and no
\* parameter of the prepared request is undefined or null.
C26_DefaultsAndAbsentKeys ==
    (cliMethod # "none") =>
        /\ ~Has(cliInput, "limit") => cliRequest.params["limit"] = DEFAULT_LIMIT
        /\ \A k \in {"search", "count", "skip"} :
               ~Has(cliInput, k) => ~Has(cliRequest.params, k)
        /\ cliRequestUndefined = {}

C26_Witness ==
    /\ cliMethod = "get"
    /\ cliUndefined = {"skip", "limit"}
    /\ cliInput = EmptyObject
    /\ DOMAIN cliRequest.params = {"limit", "api_key"}
    /\ cliRequest.params["limit"] = DEFAULT_LIMIT
    /\ cliRequestUndefined = {}

----------------------------------------------------------------------------
(* C27: the catalog and the switch *)

UnknownToolOutcome ==
    /\ outcome.tag = "error"
    /\ outcome.error.code = "MethodNotFound"

\* C27: the names in the list-tools catalog are the names the dispatcher
\* routes to a handler: a call of a listed tool never ends with the
\* unknown-tool error, and a call of any other name always does.
C27_CatalogIsSwitch ==
    /\ Range(ToolsListed) = SwitchCases
    /\ \A n \in ToolNames : routes(n) <=> n \in Range(ToolsListed)
    /\ (phase = "Done" /\ name \in Range(ToolsListed)) => ~UnknownToolOutcome
    /\ (phase = "Done" /\ name \notin Range(ToolsListed))
           => (UnknownToolOutcome /\ outcome.error = UnknownToolError(name))

C27_Witness ==
    /\ phase = "Done"
    /\ name = "search_device_recalls"
    /\ sent = 1
    /\ outcome.tag = "result"

----------------------------------------------------------------------------
(* C29: the dispatcher's catch block *)

\* C29: an McpError raised during a call leaves the dispatcher unchanged;
\* any other Error leaves it as an McpError with code InternalError and the
\* original message; a thrown value that is not an Error leaves it as
\* InternalError with the message "Unknown error occurred".
C29_CatchConversion ==
    (phase = "Done" /\ thrown # NoThrow) =>
        /\ outcome.tag = "error"
        /\ (thrown.cls = "McpError") => outcome.error = thrown
        /\ (thrown.cls = "Error")
               => outcome.error = Thrown("McpError", "InternalError", thrown.message)
        /\ (thrown.cls = "NonError")
               => outcome.error = Thrown("McpError", "InternalError",
                                         Msg("Unknown error occurred", "", 0))

C29_Witness ==
    /\ phase = "Done"
    /\ thrown.cls = "NonError"
    /\ outcome.error.code = "InternalError"
    /\ outcome.error.message.text = "Unknown error occurred"

----------------------------------------------------------------------------
(* Two runs of the server that differ in the configured key *)

\* the environment of a run: no key, and two different keys
RunKeys == EnvKeys \cup {"other-key"}

KeyNames == {"search_drug_labels", "delete_everything"}

KeyArgSets == { EmptyObject, [k \in {"limit"} |-> 5] }

KeyInit ==
    /\ envKey \in RunKeys
    /\ FdaIdle
    /\ SqlIdle
    /\ CliIdle
    /\ SseIdle
    /\ ConIdle
    /\ KeyIdle

\* a CallTool request arrives in the first run
KeyReceive ==
    /\ phase = "Idle"
    /\ firstRun = NoRun
    /\ \E n \in KeyNames, a \in KeyArgSets :
        /\ name' = n
        /\ args' = a
    /\ phase' = "Received"
    /\ trace' = <<"Received">>
    /\ UNCHANGED <<envKey, fault, request, sent, response, thrown, outcome>>
    /\ UNCHANGED notFda

\* the first run's call is kept for comparison; the server is started with
\* another key and receives the same call
KeyRunAgain ==
    /\ phase = "Done"
    /\ firstRun = NoRun
    /\ firstRun' = Run(FDA_API_KEY, name, args, response, fault, outcome)
    /\ \E k \in RunKeys \ {envKey} : envKey' = k
    /\ phase' = "Received"
    /\ trace' = <<"Received">>
    /\ fault' = "none"
    /\ request' = NoRequest
    /\ sent' = 0
    /\ response' = NoResponse
    /\ thrown' = NoThrow
    /\ outcome' = NoOutcome
    /\ UNCHANGED <<name, args>>
    /\ UNCHANGED notKey

KeyNext ==
    \/ KeyReceive
    \/ DispatchUnknown
    \/ DispatchKnown
    \/ UpstreamResponds
    \/ CompleteCall
    \/ KeyRunAgain

KeySpec == KeyInit /\ [][KeyNext]_vars

----------------------------------------------------------------------------
(* C22: error messages and the key *)

\* the message shows the key nowhere
KeyFree(message, key) == message.text # key /\ message.detail # key

\* both runs made the same call and got the same upstream answer
SameCallSameAnswer ==
    /\ phase = "Done"
    /\ firstRun # NoRun
    /\ response = firstRun.response
    /\ fault = firstRun.fault

\* C22: no error message returned to a caller depends on the value of the
\* configured key: two runs that differ only in the key and receive the same
\* upstream responses return the same error message, and the message
\* contains the key in neither run.
C22_MessagesIndependentOfKey ==
    /\ (phase = "Done") => KeyFree(outcome.error.message, FDA_API_KEY)
    /\ SameCallSameAnswer =>
          /\ firstRun.key # FDA_API_KEY
          /\ outcome.tag = firstRun.outcome.tag
          /\ outcome.error.message = firstRun.outcome.error.message
          /\ KeyFree(outcome.error.message, firstRun.key)
          /\ KeyFree(firstRun.outcome.error.message, FDA_API_KEY)

C22_Witness ==
    /\ SameCallSameAnswer
    /\ response.kind = "http"
    /\ response.status = 429
    /\ outcome.tag = "error"
    /\ firstRun.key = HardcodedKey
    /\ FDA_API_KEY = "other-key"

====
